---- MODULE Spec2Model ----
(***************************************************************************)
(* A model of the tool-invocation control loop of code_agent               *)
(* (code_agent/graph.py), of the model binding chosen by create_llm        *)
(* (code_agent/main.py) and of the two interactive shells that drive the   *)
(* loop (code_agent/cli.py chat, code_agent/main.py _main_loop).           *)
(*                                                                         *)
(* The graph is a langgraph StateGraph over AgentState.  AgentState        *)
(* declares `messages: list[BaseMessage]` with no reducer annotation, so   *)
(* the value a node returns for "messages" REPLACES the channel's value.   *)
(* call_llm therefore returns state["messages"] + [response] itself; the   *)
(* prebuilt ToolNode returns {"messages": [<the tool results>]} only.      *)
(* ToolNode runs the calls of one assistant message on a thread pool       *)
(* (executor.map): calls are taken up in request order, may be in flight   *)
(* together, and their results are collected in request order.             *)
(***************************************************************************)
EXTENDS Integers, Sequences, FiniteSets, TLC

\* ------------------------------------------------------------------ bounds
\* tool-call requests one assistant message may carry
MaxCalls == 3
\* model calls in one turn (the code has no cap: the model's guard only)
MaxRounds == 3
\* model calls in one turn of the runs that go on to the graph's step limit
MaxTurnRounds == 14
\* inputs a shell session reads
MaxInputs == 2
\* entries of PersistentAgent.conversation_history
MaxEntries == 6
\* calls of write_file and of the file tools in one run
MaxOps == 2
\* calls of create_project_scaffold on one root
MaxScaffolds == 2
\* applications of edit-file's patch mode to one text
MaxPatches == 2

\* ------------------------------------------------------------------ values
None == "None"
NoId == <<>>

\* the registry of the tests: one tool, named "dummy" (test_graph.py:60-69)
Registry == {"dummy"}
\* names a model may ask for: a registered one and one absent from the registry
ToolNames == {"dummy", "nosuch"}

\* A text is the sequence of its pieces, so that an f-string is a
\* concatenation; the empty text is <<>>.
Text(string) == IF string = "" THEN <<>> ELSE <<string>>

\* text of an assistant message: empty (tool calls only) or a reply
AiTexts == {Text(""), Text("Hello, world!")}

\* a chat message.  form: "object" (a BaseMessage) or "tuple" (the
\* ("human", text) pair cli.chat appends); type: human | ai | tool.
Msg(form, type, content, tool_calls, tool_call_id, name, status) ==
    [form |-> form, type |-> type, content |-> content, tool_calls |-> tool_calls,
     tool_call_id |-> tool_call_id, name |-> name, status |-> status]

HumanMessage(text) == Msg("object", "human", text, <<>>, NoId, None, None)
HumanTuple(text) == Msg("tuple", "human", text, <<>>, NoId, None, None)
AIMessage(text, calls) == Msg("object", "ai", text, calls, NoId, None, None)
NoMessage == Msg("object", "none", Text(""), <<>>, NoId, None, None)
ToolMessage(text, id, name, status) == Msg("object", "tool", text, <<>>, id, name, status)

\* the tool-call lists a model may return: names of length 0..MaxCalls; the
\* i-th call of the model's r-th response carries the identifier <<r, i>>,
\* fresh for every request of a run
NameSeqs(maxCalls) == UNION {[1..n -> ToolNames] : n \in 0..maxCalls}
Calls(names, r) == [i \in 1..Len(names) |-> [name |-> names[i], id |-> <<r, i>>]]

IsPrefix(s, t) == Len(s) <= Len(t) /\ SubSeq(t, 1, Len(s)) = s

\* ------------------------------------------------------------------ state
VARIABLES
    shell,          \* who runs the graph: "none" | "turn" (direct invokes) | "chat" | "main"
    llm,            \* the model handle create_llm returned
    messages,       \* AgentState["messages"]: the graph's only channel
    pc,             \* the graph run: "idle" | "agent" | "action" | "END" | "raised" |
                    \* "out_of_steps" | "interrupted"
    tstate,         \* ToolNode's calls in flight: call index -> pending | running | done
    initial,        \* history: the messages the run was invoked with
    lastResponse,   \* history: what model.invoke returned in the latest "agent" step
    callCounts,     \* history: number of tool calls of each model response of this run
    promptLens,     \* history: length of the conversation of each model call of this run
    actionVisits    \* history: completed visits of the "action" node in this run

VARIABLES
    loop,               \* the shell's loop: "off" | "input" | "invoke" | "ended"
    conversation_state, \* cli.chat's conversation_state: None, or its "messages" list
    user_input,         \* the stripped line the shell read last
    inputsRead,         \* history: number of lines read in this session
    printed             \* the texts the shell printed as the agent's response of the last turn

chatVars == <<loop, conversation_state, user_input, inputsRead, printed>>

VARIABLES
    chat_history,       \* main._main_loop's chat_history
    final_response,     \* main._main_loop's final_response (NoMessage for None)
    stored              \* the vector store's documents, in the order added

mainVars == <<chat_history, final_response, stored>>

graphVars == <<llm, messages, pc, tstate, initial, lastResponse, callCounts, promptLens, actionVisits>>

VARIABLES
    stateFile,             \* ~/.code_agent/state.json: [kind, data]
    _initialized,          \* PersistentAgent._instance exists and is initialised
    agent,                 \* the model handle PersistentAgent.agent was built with
    conversation_history,  \* PersistentAgent.conversation_history
    settings,              \* PersistentAgent.settings
    outcome                \* history: the latest call on the PersistentAgent and how it ended

persistVars == <<stateFile, _initialized, agent, conversation_history, settings, outcome>>

VARIABLES
    fs,        \* the files under the root: path -> [exists, content]
    toolbox,   \* the latest create_default_tools call: its llm argument and its result
    result,    \* history: the latest call of write_file or of a file tool and how it ended
    given,     \* history: the arguments of that call: [mode, content, overwrite]
    ops        \* history: the number of those calls so far

filesVars == <<fs, toolbox, result, given, ops>>

VARIABLES
    tree,        \* the root of create_project_scaffold: [dirs, files: path -> [exists, content]]
    scaffolded,  \* history: the latest create_project_scaffold call and how it ended
    patched      \* a text under edit-file's patch mode:
                 \* [original, new_content, text, times, raised]

scaffoldVars == <<tree, scaffolded>>

\* the variables of the components that no graph step and no shell step touches
outsideVars == <<persistVars, filesVars, scaffoldVars, patched>>

\* ------------------------------------------------------------------ main.py
\* create_llm: ChatOllama when its construction succeeds, else the fallback
create_llm(constructionOk) == IF constructionOk THEN "ChatOllama" ELSE "_FallbackLLM"

\* [mutant] the fallback answers with an empty text
FallbackGenerateEmpty == AIMessage(Text(""), <<>>)

\* _FallbackLLM._generate: always the same error text (json.dumps of the
\* error and its details), no tool calls
FallbackText == <<"{\"error\": \"LLM unavailable\", \"details\": ", "...", "}">>
FallbackGenerate == AIMessage(FallbackText, <<>>)

\* what model.invoke may return: anything for a live (or mocked) model, the
\* fixed error message for the fallback
\* In a run a shell started the model asks for no tool or for the one registered.
ShellNameSeqs == {<<>>, <<"dummy">>}
Requests == IF shell = "none" THEN NameSeqs(MaxCalls) ELSE ShellNameSeqs
ModelResponses(handle, r) ==
    IF handle = "_FallbackLLM" THEN {FallbackGenerate}
    ELSE {AIMessage(text, Calls(names, r)) : text \in AiTexts, names \in Requests}

\* a live model's invoke can raise (backend unreachable); the fallback's cannot
ModelMayRaise(handle) == handle # "_FallbackLLM"

\* ------------------------------------------------------------------ graph.py
\* [mutant] routes on the message type alone, not on its tool calls
should_continue_any_ai(msgs) ==
    IF msgs[Len(msgs)].type = "ai" THEN "action" ELSE "END"

\* should_continue: "action" when the last message is an assistant message
\* with tool calls, END otherwise
should_continue(msgs) ==
    LET last == msgs[Len(msgs)]
    IN  IF last.type = "ai" /\ Len(last.tool_calls) > 0 THEN "action" ELSE "END"

\* ToolNode, one call: the tool's output, or the invalid-tool error message
InvalidToolText(name) == <<"Error: ", name, " is not a valid tool, try one of [", "dummy", "].">>
ToolOutput(name) == Text("dummy output")
\* [mutant] no registry lookup: every requested name is run as a tool
run_one_unchecked(call) == ToolMessage(ToolOutput(call.name), call.id, call.name, "success")

run_one(call) ==
    IF call.name \in Registry
    THEN ToolMessage(ToolOutput(call.name), call.id, call.name, "success")
    ELSE ToolMessage(InvalidToolText(call.name), call.id, call.name, "error")

\* the value the "agent" node writes to the channel: history + [response]
AgentOutput(msgs, response) == msgs \o <<response>>

\* the value the "action" node writes to the channel: ToolNode's outputs, one
\* per tool call of the last message, in request order
ActionOutput(msgs) ==
    LET calls == msgs[Len(msgs)].tool_calls
    IN  [i \in 1..Len(calls) |-> run_one(calls[i])]

\* graph.invoke(state): the input is written to the channel, entry point "agent"
StartRun(state) ==
    /\ messages' = state
    /\ pc' = "agent"
    /\ tstate' = <<>>
    /\ initial' = state
    /\ lastResponse' = NoMessage
    /\ callCounts' = <<>>
    /\ promptLens' = <<>>
    /\ actionVisits' = 0

\* [mutant] only the model calls are counted as steps
Steps_model_calls == Len(promptLens)

\* the supersteps the run has taken: one per visit of a node
Steps == Len(promptLens) + actionVisits

\* graph.compile() and graph.invoke(state) are given no config, so the run
\* has langgraph's default recursion_limit: it may take that many supersteps
recursion_limit == 25

\* the model's guard on the number of model calls of a run
RoundCap == IF shell = "turn" THEN MaxTurnRounds ELSE MaxRounds

\* the variables of the shells, which no graph step touches
ShellFrame == UNCHANGED <<shell, chatVars, mainVars, outsideVars>>

\* node "agent": call_llm, then the conditional edge should_continue (the
\* graph's variables only: the caller's are the caller's to constrain)
call_llm ==
    /\ pc = "agent"
    /\ Len(promptLens) < RoundCap
    /\ Steps < recursion_limit
    /\ \E response \in ModelResponses(llm, Len(promptLens) + 1) :
         /\ messages' = AgentOutput(messages, response)
         /\ pc' = should_continue(messages')
         /\ tstate' = [i \in 1..Len(response.tool_calls) |-> "pending"]
         /\ lastResponse' = response
         /\ callCounts' = Append(callCounts, Len(response.tool_calls))
    /\ promptLens' = Append(promptLens, Len(messages))
    /\ UNCHANGED <<llm, initial, actionVisits>>

\* [mutant] the exception is swallowed and an assistant message synthesized
call_llm_swallows ==
    /\ pc = "agent"
    /\ Len(promptLens) < RoundCap
    /\ Steps < recursion_limit
    /\ ModelMayRaise(llm)
    /\ messages' = AgentOutput(messages, AIMessage(Text("error"), <<>>))
    /\ pc' = "END"
    /\ promptLens' = Append(promptLens, Len(messages))
    /\ UNCHANGED <<llm, tstate, initial, lastResponse, callCounts, actionVisits>>
    /\ ShellFrame

\* node "agent" when model.invoke raises: call_llm has no handler, the
\* exception leaves graph.invoke and the channel keeps its value
call_llm_raises ==
    /\ pc = "agent"
    /\ Len(promptLens) < RoundCap
    /\ Steps < recursion_limit
    /\ ModelMayRaise(llm)
    /\ pc' = "raised"
    /\ promptLens' = Append(promptLens, Len(messages))
    /\ UNCHANGED <<llm, messages, tstate, initial, lastResponse, callCounts, actionVisits>>
    /\ ShellFrame

\* node "action" (ToolNode): a pool thread takes up the next call
ToolStart(i) ==
    /\ pc = "action"
    /\ i \in DOMAIN tstate
    /\ tstate[i] = "pending"
    /\ \A j \in 1..(i - 1) : tstate[j] # "pending"
    /\ tstate' = [tstate EXCEPT ![i] = "running"]
    /\ UNCHANGED <<llm, messages, pc, initial, lastResponse, callCounts, promptLens, actionVisits>>
    /\ ShellFrame

\* node "action": a running call returns
ToolFinish(i) ==
    /\ pc = "action"
    /\ i \in DOMAIN tstate
    /\ tstate[i] = "running"
    /\ tstate' = [tstate EXCEPT ![i] = "done"]
    /\ UNCHANGED <<llm, messages, pc, initial, lastResponse, callCounts, promptLens, actionVisits>>
    /\ ShellFrame

\* node "action" returns once every call is answered; edge action -> agent
ToolNodeReturn ==
    /\ pc = "action"
    /\ Steps < recursion_limit
    /\ \A i \in DOMAIN tstate : tstate[i] = "done"
    /\ messages' = ActionOutput(messages)
    /\ pc' = "agent"
    /\ tstate' = <<>>
    /\ actionVisits' = actionVisits + 1
    /\ lastResponse' = NoMessage
    /\ UNCHANGED <<llm, initial, callCounts, promptLens>>
    /\ ShellFrame

\* the run is not finished after recursion_limit supersteps: graph.invoke
\* raises GraphRecursionError and the step that was due is not committed.
\* (No run of the other specifications is long enough for it.)
OutOfSteps ==
    /\ pc \in {"agent", "action"}
    /\ Steps >= recursion_limit
    /\ pc' = "out_of_steps"
    /\ UNCHANGED <<llm, messages, tstate, initial, lastResponse, callCounts, promptLens,
                   actionVisits>>
    /\ ShellFrame

\* node "agent" of a run started by graph.invoke (a test, cli.chat)
InvokeAgent ==
    /\ shell # "main"
    /\ call_llm
    /\ ShellFrame

\* build_graph: the compiled graph's steps
build_graph ==
    \/ InvokeAgent
    \/ call_llm_raises
    \/ \E i \in 1..MaxCalls : ToolStart(i)
    \/ \E i \in 1..MaxCalls : ToolFinish(i)
    \/ ToolNodeReturn

\* ------------------------------------------------------------------ cli.py
\* the lines a session may read, as typed
RawInputs == {"exit", "QUIT", "q", " Help ", "clear", "tools", "", " Fix it "}

\* str.strip() on those lines
strip(raw) ==
    CASE raw = " Help " -> "Help"
      [] raw = " Fix it " -> "Fix it"
      [] OTHER -> raw

\* str.lower() on the stripped lines
lower(text) ==
    CASE text = "QUIT" -> "quit"
      [] text = "Help" -> "help"
      [] text = "Fix it" -> "fix it"
      [] OTHER -> text

\* conversation_state values: None, and {"messages": msgs}
NoneState == [none |-> TRUE, messages |-> <<>>]
StateOf(msgs) == [none |-> FALSE, messages |-> msgs]

\* [mutant] the commands are compared as typed, without lower()
_handle_command_as_typed(text, state) ==
    IF text \in {"exit", "quit", "q"} THEN [cont |-> FALSE, state |-> state]
    ELSE IF text \in {"help", "clear", "tools", ""} THEN [cont |-> TRUE, state |-> NoneState]
    ELSE [cont |-> TRUE, state |-> state]

\* _handle_command: (continue_session, conversation_state or None)
_handle_command(text, state) ==
    IF lower(text) \in {"exit", "quit", "q"} THEN [cont |-> FALSE, state |-> state]
    ELSE IF lower(text) = "help" THEN [cont |-> TRUE, state |-> NoneState]
    ELSE IF lower(text) = "clear" THEN [cont |-> TRUE, state |-> NoneState]
    ELSE IF lower(text) = "tools" THEN [cont |-> TRUE, state |-> NoneState]
    ELSE IF text = "" THEN [cont |-> TRUE, state |-> NoneState]
    ELSE [cont |-> TRUE, state |-> state]

\* _display_agent_response: what it prints of the response's messages, the
\* text of the last one that is a pair whose first item is "ai" or "assistant"
_display_agent_response(msgs) ==
    LET pairs == {i \in 1..Len(msgs) :
                     msgs[i].form = "tuple" /\ msgs[i].type \in {"ai", "assistant"}}
    IN  IF pairs = {} THEN <<>>
        ELSE <<msgs[CHOOSE i \in pairs : \A j \in pairs : j <= i].content>>

GraphUntouched ==
    UNCHANGED <<llm, messages, pc, tstate, initial, lastResponse, callCounts, promptLens, actionVisits>>

\* chat, one pass of the loop up to agent.invoke: read a line, handle a
\* command, else append ("human", line) and invoke the agent
ChatInput ==
    /\ shell = "chat"
    /\ loop = "input"
    /\ inputsRead < MaxInputs
    /\ \E raw \in RawInputs :
         LET r == _handle_command(strip(raw), conversation_state)
         IN  /\ user_input' = strip(raw)
             /\ IF ~ r.cont
                  THEN /\ loop' = "ended"
                       /\ conversation_state' = r.state
                       /\ GraphUntouched
                  ELSE IF r.state.none
                  THEN /\ loop' = "input"
                       /\ conversation_state' = r.state
                       /\ GraphUntouched
                  ELSE /\ loop' = "invoke"
                       /\ conversation_state' =
                              StateOf(Append(r.state.messages, HumanTuple(Text(strip(raw)))))
                       /\ StartRun(conversation_state'.messages)
                       /\ UNCHANGED llm
    /\ inputsRead' = inputsRead + 1
    /\ UNCHANGED <<shell, printed, mainVars, outsideVars>>

\* chat, agent.invoke returned: _display_agent_response hands the response
\* back as the new conversation_state
ChatResponse ==
    /\ shell = "chat"
    /\ loop = "invoke"
    /\ pc = "END"
    /\ conversation_state' = StateOf(messages)
    /\ printed' = _display_agent_response(messages)
    /\ loop' = "input"
    /\ pc' = "idle"
    /\ UNCHANGED <<shell, llm, messages, tstate, initial, lastResponse, callCounts, promptLens,
                   actionVisits, user_input, inputsRead, mainVars, outsideVars>>

\* chat, agent.invoke raised: the error is printed and the loop continues
ChatError ==
    /\ shell = "chat"
    /\ loop = "invoke"
    /\ pc = "raised"
    /\ loop' = "input"
    /\ pc' = "idle"
    /\ UNCHANGED <<shell, llm, messages, tstate, initial, lastResponse, callCounts, promptLens,
                   actionVisits, conversation_state, user_input, inputsRead, printed, mainVars,
                   outsideVars>>

\* [mutant] the handler drops the conversation
ChatInterrupt_forgets ==
    /\ shell = "chat"
    /\ loop \in {"input", "invoke"}
    /\ loop' = "ended"
    /\ pc' = IF loop = "invoke" THEN "interrupted" ELSE pc
    /\ conversation_state' = StateOf(<<>>)
    /\ UNCHANGED <<shell, llm, messages, tstate, initial, lastResponse, callCounts, promptLens,
                   actionVisits, user_input, inputsRead, printed, mainVars, outsideVars>>

\* chat, KeyboardInterrupt at the prompt or during agent.invoke: the loop breaks
ChatInterrupt ==
    /\ shell = "chat"
    /\ loop \in {"input", "invoke"}
    /\ loop' = "ended"
    /\ pc' = IF loop = "invoke" THEN "interrupted" ELSE pc
    /\ UNCHANGED <<shell, llm, messages, tstate, initial, lastResponse, callCounts, promptLens,
                   actionVisits, conversation_state, user_input, inputsRead, printed, mainVars,
                   outsideVars>>

\* chat: the loop's steps, agent.invoke's among them
chat ==
    \/ ChatInput
    \/ build_graph
    \/ ChatResponse
    \/ ChatError
    \/ ChatInterrupt

\* ------------------------------------------------------------------ main.py
\* The vector store is taken to work: similarity_search and add_texts return.
\* similarity_search(user_input, k = 2): the k nearest documents
K == 2
Min(a, b) == IF a < b THEN a ELSE b
Retrievals(docs) ==
    LET n == Min(K, Len(docs))
    IN  {[i \in 1..n |-> docs[pick[i]]] :
            pick \in {f \in [1..n -> 1..Len(docs)] : \A i, j \in 1..n : i # j => f[i] # f[j]}}

\* _handle_retrieval: one "Past context: ..." human message per document
PastContext(found) ==
    [i \in 1..Len(found) |-> HumanMessage(<<"Past context: ">> \o found[i])]

\* _process_agent_event on an "agent" event: the first message of the node's
\* output is looked at; with tool calls it is printed, else it is the result
_process_agent_event(output) ==
    LET agent_response == output[1]
    IN  IF Len(agent_response.tool_calls) > 0 THEN NoMessage ELSE agent_response

\* _main_loop, one pass up to app.stream: read a line, leave on exit/quit/q,
\* skip an empty line, else retrieve, append the human message and stream
MainInput ==
    /\ shell = "main"
    /\ loop = "input"
    /\ inputsRead < MaxInputs
    /\ \E raw \in RawInputs :
         /\ user_input' = strip(raw)
         /\ IF lower(strip(raw)) \in {"exit", "quit", "q"}
              THEN /\ loop' = "ended"
                   /\ GraphUntouched
                   /\ UNCHANGED mainVars
              ELSE IF strip(raw) = ""
              THEN /\ loop' = "input"
                   /\ GraphUntouched
                   /\ UNCHANGED mainVars
              ELSE \E found \in Retrievals(stored) :
                      /\ chat_history' = chat_history \o PastContext(found)
                                             \o <<HumanMessage(Text(strip(raw)))>>
                      /\ final_response' = NoMessage
                      /\ loop' = "invoke"
                      /\ StartRun(chat_history')
                      /\ UNCHANGED <<llm, stored>>
    /\ inputsRead' = inputsRead + 1
    /\ UNCHANGED <<shell, conversation_state, printed, outsideVars>>

\* app.stream yields the "agent" node's output: call_llm and the event's handling
MainStreamAgent ==
    /\ shell = "main"
    /\ loop = "invoke"
    /\ call_llm
    /\ final_response' =
           LET response == _process_agent_event(messages')
           IN  IF response # NoMessage THEN response ELSE final_response
    /\ UNCHANGED <<shell, chatVars, chat_history, stored, outsideVars>>

\* the stream is exhausted: _update_history_and_persist when there is a
\* final response
MainStreamEnd ==
    /\ shell = "main"
    /\ loop = "invoke"
    /\ pc = "END"
    /\ IF final_response # NoMessage
          THEN /\ printed' = <<final_response.content>>
               /\ chat_history' = Append(chat_history, final_response)
               /\ stored' = stored \o <<Text(user_input), final_response.content>>
          ELSE UNCHANGED <<printed, chat_history, stored>>
    /\ loop' = "input"
    /\ pc' = "idle"
    /\ UNCHANGED <<shell, llm, messages, tstate, initial, lastResponse, callCounts, promptLens,
                   actionVisits, conversation_state, user_input, inputsRead, final_response,
                   outsideVars>>

\* the stream raised: logged and printed, next pass
MainError ==
    /\ shell = "main"
    /\ loop = "invoke"
    /\ pc = "raised"
    /\ loop' = "input"
    /\ pc' = "idle"
    /\ UNCHANGED <<shell, llm, messages, tstate, initial, lastResponse, callCounts, promptLens,
                   actionVisits, conversation_state, user_input, inputsRead, printed, mainVars,
                   outsideVars>>

\* KeyboardInterrupt at the prompt or during the stream: the loop breaks
MainInterrupt ==
    /\ shell = "main"
    /\ loop \in {"input", "invoke"}
    /\ loop' = "ended"
    /\ pc' = IF loop = "invoke" THEN "interrupted" ELSE pc
    /\ UNCHANGED <<shell, llm, messages, tstate, initial, lastResponse, callCounts, promptLens,
                   actionVisits, conversation_state, user_input, inputsRead, printed, mainVars,
                   outsideVars>>

\* _main_loop: the loop's steps; app.stream's other steps are build_graph's
_main_loop ==
    \/ MainInput
    \/ MainStreamAgent
    \/ MainStreamEnd
    \/ MainError
    \/ MainInterrupt

\* ------------------------------------------------------- persistent_agent.py
\* the state file: absent, or present with a content.  kind "invalid" is a
\* content json.load rejects (an empty or truncated file among them),
\* "non_object" valid JSON that is not an object, "object" a JSON object
\* with the two fields _save_state writes.
NoData == [conversation_history |-> <<>>, settings |-> <<>>]
AbsentFile == [kind |-> "absent", data |-> NoData]
InvalidFile == [kind |-> "invalid", data |-> NoData]
NonObjectFile == [kind |-> "non_object", data |-> NoData]
ObjectFile(history, sett) ==
    [kind |-> "object", data |-> [conversation_history |-> history, settings |-> sett]]

\* how a call on the PersistentAgent ended: whether it raised, the string it
\* returned, whether a warning was printed, and the faults the file system
\* met it with ("mkdir": the state directory cannot be created, "open": the
\* state file cannot be opened, "write": the write stops midway)
Outcome(op, raised, returned, warned, faults) ==
    [op |-> op, raised |-> raised, returned |-> returned, warned |-> warned, faults |-> faults]
\* no call was made on the PersistentAgent yet
NoCall == Outcome("none", FALSE, <<>>, FALSE, {})

\* the faults one pass through the state directory and file can meet
Faults == {{}, {"mkdir"}, {"open"}, {"write"}}

\* the messages of the chat calls, and the entries of conversation_history
ChatMessages == {"hi", "Fix it"}
Entry(role, content) == [role |-> role, content |-> content]
\* response.get("output", str(response)) and the f-string "(cross mark) Error: {str(e)}"
ResponseContent == <<"str(response)">>
ErrorMsg(e) == <<"Error: ", e>>

\* the state files a process may find: none, a damaged one, one that an
\* earlier process saved
SavedHistories ==
    {<<>>, <<Entry("user", Text("hi")), Entry("assistant", ResponseContent)>>}
SavedSettings == {<<>>, <<"theme">>}
StateFiles ==
    {AbsentFile, InvalidFile, NonObjectFile}
        \cup {ObjectFile(h, st) : h \in SavedHistories, st \in SavedSettings}

\* _load_state: the in-memory history and settings after it, whether it
\* raised and whether it warned.  _ensure_state_dir is called outside the try.
_load_state(file, history, sett, fault) ==
    IF "mkdir" \in fault
    THEN [raised |-> TRUE, history |-> history, settings |-> sett, warned |-> FALSE]
    ELSE IF file.kind = "absent"
    THEN [raised |-> FALSE, history |-> history, settings |-> sett, warned |-> FALSE]
    ELSE IF "open" \in fault \/ file.kind \in {"invalid", "non_object"}
    THEN [raised |-> FALSE, history |-> history, settings |-> sett, warned |-> TRUE]
    ELSE [raised |-> FALSE, history |-> file.data.conversation_history,
          settings |-> file.data.settings, warned |-> FALSE]

\* _save_state: the state file after it, whether it raised and whether it
\* warned.  _ensure_state_dir is called outside the try; open(..., "w")
\* truncates, so a write that stops midway leaves a file json.load rejects.
_save_state(file, history, sett, fault) ==
    IF "mkdir" \in fault
    THEN [raised |-> TRUE, file |-> file, warned |-> FALSE]
    ELSE IF "open" \in fault
    THEN [raised |-> FALSE, file |-> file, warned |-> TRUE]
    ELSE IF "write" \in fault
    THEN [raised |-> FALSE, file |-> InvalidFile, warned |-> TRUE]
    ELSE [raised |-> FALSE, file |-> ObjectFile(history, sett), warned |-> FALSE]

\* the variables no PersistentAgent call touches
PersistFrame == UNCHANGED <<shell, graphVars, chatVars, mainVars, filesVars, scaffoldVars, patched>>

\* [mutant] every construction builds the agent and loads the state
Construct_rebuilds ==
    /\ \E handle \in {create_llm(ok) : ok \in BOOLEAN}, fault \in Faults \ {{"write"}} :
         LET loaded == _load_state(stateFile, <<>>, <<>>, fault)
         IN  /\ agent' = handle
             /\ _initialized' = TRUE
             /\ conversation_history' = loaded.history
             /\ settings' = loaded.settings
             /\ outcome' = Outcome("construct", loaded.raised, <<>>, loaded.warned, fault)
    /\ UNCHANGED stateFile
    /\ PersistFrame

\* PersistentAgent(llm, tools): __new__ and __init__.  The first construction
\* of a process builds the agent and loads the state; a later one returns
\* the instance as it is.
Construct ==
    /\ \E handle \in {create_llm(ok) : ok \in BOOLEAN}, fault \in Faults \ {{"write"}} :
         IF _initialized
         THEN /\ outcome' = Outcome("construct", FALSE, <<>>, FALSE, {})
              /\ UNCHANGED <<_initialized, agent, conversation_history, settings>>
         ELSE LET loaded == _load_state(stateFile, <<>>, <<>>, fault)
              IN  /\ agent' = handle
                  /\ _initialized' = TRUE
                  /\ conversation_history' = loaded.history
                  /\ settings' = loaded.settings
                  /\ outcome' = Outcome("construct", loaded.raised, <<>>, loaded.warned, fault)
    /\ UNCHANGED stateFile
    /\ PersistFrame

\* PersistentAgent.chat(message); agent.invoke returns or raises
PersistentChat ==
    /\ _initialized
    /\ Len(conversation_history) + 3 <= MaxEntries
    /\ \E message \in ChatMessages, invoked \in BOOLEAN, fault1 \in Faults, fault2 \in Faults :
         LET asked == Append(conversation_history, Entry("user", Text(message)))
             replied == Append(asked, Entry("assistant", ResponseContent))
             saved == _save_state(stateFile, replied, settings, fault1)
             error_msg == ErrorMsg(IF invoked THEN "save" ELSE "invoke")
             failed == Append(IF invoked THEN replied ELSE asked, Entry("error", error_msg))
             again == _save_state(stateFile, failed, settings, fault2)
         IN  IF invoked /\ ~ saved.raised
             THEN /\ fault2 = {}
                  /\ conversation_history' = replied
                  /\ stateFile' = saved.file
                  /\ outcome' = Outcome("chat", FALSE, ResponseContent, saved.warned, fault1)
             ELSE /\ invoked => "mkdir" \in fault1
                  /\ ~ invoked => fault1 = {}
                  /\ conversation_history' = failed
                  /\ stateFile' = again.file
                  /\ outcome' = Outcome("chat", again.raised,
                                        IF again.raised THEN <<>> ELSE error_msg,
                                        again.warned, fault1 \cup fault2)
    /\ UNCHANGED <<_initialized, agent, settings>>
    /\ PersistFrame

\* PersistentAgent.reset_conversation
reset_conversation ==
    /\ _initialized
    /\ \E fault \in Faults :
         LET saved == _save_state(stateFile, <<>>, settings, fault)
         IN  /\ conversation_history' = <<>>
             /\ stateFile' = saved.file
             /\ outcome' = Outcome("reset_conversation", saved.raised, <<>>, saved.warned, fault)
    /\ UNCHANGED <<_initialized, agent, settings>>
    /\ PersistFrame

\* the process ends: the class attribute _instance is None in the next one,
\* the state file stays
NewProcess ==
    /\ _initialized
    /\ _initialized' = FALSE
    /\ agent' = None
    /\ conversation_history' = <<>>
    /\ settings' = <<>>
    /\ outcome' = NoCall
    /\ UNCHANGED stateFile
    /\ PersistFrame

\* ------------------------------- file_generator.py, tools/, base_agent.py
\* The text of a file is the sequence of its pieces; a write that stops
\* midway leaves a proper prefix of the text (the empty one after the
\* truncation of open(..., "w")).
File(content) == [exists |-> TRUE, content |-> content]
Absent == [exists |-> FALSE, content |-> <<>>]
Prefixes(content) == {SubSeq(content, 1, n) : n \in 0..(Len(content) - 1)}

Directory == [exists |-> TRUE, content |-> <<"<directory>">>]

\* the paths under the root, Path.with_suffix(".tmp") and
\* path.with_suffix(path.suffix + ".bak") on them, and the tests directory
\* of generate-test with the test files of the modules "a" and ""
Paths == {"a.txt", "a.tmp", "a.txt.bak", "tests", "tests/test_a.py", "tests/test_.py"}
ProjectNames == {"project", "app"}
package_dir(project_name) == "src/" \o project_name
package_init(project_name) == package_dir(project_name) \o "/__init__.py"
with_suffix_tmp(path) ==
    CASE path \in {"a.txt", "a.tmp"} -> "a.tmp"
      [] path = "README.qmd" -> "README.tmp"
      [] path = "requirements.txt" -> "requirements.tmp"
      [] path = "docs/index.qmd" -> "docs/index.tmp"
      [] path = "tests/test_smoke.py" -> "tests/test_smoke.tmp"
      [] path = ".github/workflows/ci.yml" -> ".github/workflows/ci.tmp"
      [] path \in {package_init(n) : n \in ProjectNames} ->
             package_dir(CHOOSE n \in ProjectNames : path = package_init(n)) \o "/__init__.tmp"
      [] OTHER -> "a.txt.tmp"
with_suffix_bak(path) == IF path = "a.txt" THEN "a.txt.bak" ELSE "a.tmp.bak"

start_marker == "<!-- AUTOGEN START -->"
end_marker == "<!-- AUTOGEN END -->"

\* the texts the calls are given, the targets they name
NewContents == {<<"x">>, <<"y", "z">>}
WriteTargets == {"a.txt", "a.tmp"}
ToolTargets == {"a.txt"}
Modes == {"replace", "append", "patch"}
GivenModes == Modes \cup {"rewrite"}

\* the result of a call: FileObject.status and the message for a tool,
\* "returned" or the exception for write_file; `wanted` is the text the call
\* was to leave in the target, `fault` what the file system met it with
Result(op, target, status, message, backup, wanted, fault) ==
    [op |-> op, target |-> target, status |-> status, message |-> message,
     backup |-> backup, wanted |-> wanted, fault |-> fault]
NoResult == Result("none", "", "", <<>>, "no_backup", <<>>, "none")

\* the arguments of a call: the mode and the text it was given, and whether
\* it may replace an existing file
Args(mode, content, overwrite) == [mode |-> mode, content |-> content, overwrite |-> overwrite]
NoArgs == Args("", <<>>, FALSE)

NoToolbox == [created |-> FALSE, llm |-> None, tools |-> <<>>]

\* nothing was written and no tool was created
NoFileTools ==
    /\ fs = [p \in Paths |-> Absent]
    /\ toolbox = NoToolbox
    /\ result = NoResult
    /\ given = NoArgs
    /\ ops = 0

\* the variables no file operation touches
FilesFrame == UNCHANGED <<shell, graphVars, chatVars, mainVars, persistVars, scaffoldVars, patched>>

\* [mutant] the model-dependent tools are created whatever the handle
create_default_tools_all(handle) ==
    <<"read-file", "edit-file", "search-explain", "linker", "new-file", "generate-test",
      "format-code", "notebook", "general-chat", "r-script">>

\* create_default_tools(root_dir, llm): standard_tools with the None entries
\* dropped; the entries are the tools' names
create_default_tools(handle) ==
    LET standard_tools ==
            <<"read-file", "edit-file",
              IF handle # None THEN "search-explain" ELSE None,
              "linker", "new-file",
              IF handle # None THEN "generate-test" ELSE None,
              "format-code",
              IF handle # None THEN "notebook" ELSE None,
              IF handle # None THEN "general-chat" ELSE None,
              "r-script">>
    IN  SelectSeq(standard_tools, LAMBDA tool : tool # None)

\* a caller builds the registry, with a model handle or without one
CreateDefaultTools ==
    /\ \E handle \in {None, create_llm(TRUE)} :
         toolbox' = [created |-> TRUE, llm |-> handle, tools |-> create_default_tools(handle)]
    /\ UNCHANGED <<fs, result, given, ops>>
    /\ FilesFrame

Registered(name) == \E i \in 1..Len(toolbox.tools) : toolbox.tools[i] = name

\* Path.write_text(content): the file it may leave.  fault "open": the file
\* cannot be opened; "write": the write stops midway with OSError; "crash":
\* the process is interrupted midway
write_text(file, content, fault) ==
    IF fault = "open" THEN {file}
    ELSE IF fault \in {"write", "crash"} THEN {File(prefix) : prefix \in Prefixes(content)}
    ELSE {File(content)}

\* write_file(target, content): the temporary file is target.with_suffix(".tmp").
\* stop: where the call fails ("none": nowhere).  The files it may leave:
write_file_to(files, target, content, stop) ==
    LET tmp == with_suffix_tmp(target)
    IN  IF stop \in {"mkdir", "open"} THEN {files}
        ELSE IF stop = "write"
        THEN {[files EXCEPT ![tmp] = File(written)] : written \in Prefixes(content)}
        ELSE IF stop = "replace" THEN {[files EXCEPT ![tmp] = File(content)]}
        ELSE {[[files EXCEPT ![tmp] = Absent] EXCEPT ![target] = File(content)]}

\* a call of write_file; crash: it is the process that is interrupted at
\* `stop`, not an OSError
write_file ==
    /\ ops < MaxOps
    /\ \E target \in WriteTargets, content \in NewContents,
          stop \in {"none", "mkdir", "open", "write", "replace"}, crash \in BOOLEAN :
         LET status == IF stop = "none" THEN "returned"
                       ELSE IF crash THEN "interrupted" ELSE "CodeAgentError"
         IN  /\ crash => stop \in {"write", "replace"}
             /\ fs' \in write_file_to(fs, target, content, stop)
             /\ result' = Result("write_file", target, status, <<>>, "no_backup", content, stop)
             /\ given' = Args("w", content, TRUE)
    /\ ops' = ops + 1
    /\ UNCHANGED toolbox
    /\ FilesFrame

\* EditFileTool._backup_file on an existing file: shutil.copy to the
\* sibling .bak path, or "backup_failed"
_backup_file(files, path, copied) ==
    IF copied THEN [files EXCEPT ![with_suffix_bak(path)] = files[path]] ELSE files

\* _edit_replace, _edit_append, _edit_patch: the text they write
_edit_replace(original, content) == content
_edit_append(original, content) == original \o content
Occurs(marker, text) == \E i \in 1..Len(text) : text[i] = marker
First(marker, text) == CHOOSE i \in 1..Len(text) : text[i] = marker /\ \A j \in 1..(i - 1) : text[j] # marker
\* rest.split(end_marker, 1) yields one part when no end marker follows the
\* start marker, and the unpacking raises ValueError
PatchRaises(original) ==
    /\ Occurs(start_marker, original)
    /\ Occurs(end_marker, original)
    /\ ~ Occurs(end_marker, SubSeq(original, First(start_marker, original) + 1, Len(original)))
\* [mutant] patch mode appends whatever the text holds
_edit_patch_appends(original, content) == original \o <<"\n">> \o content

_edit_patch(original, content) ==
    IF Occurs(start_marker, original) /\ Occurs(end_marker, original)
    THEN LET i == First(start_marker, original)
             pre == SubSeq(original, 1, i - 1)
             rest == SubSeq(original, i + 1, Len(original))
             j == First(end_marker, rest)
             post == SubSeq(rest, j + 1, Len(rest))
         IN  pre \o <<start_marker, "\n">> \o content \o <<"\n", end_marker>> \o post
    ELSE original \o <<"\n">> \o content
edit_functions(mode, original, content) ==
    CASE mode = "replace" -> _edit_replace(original, content)
      [] mode = "append" -> _edit_append(original, content)
      [] mode = "patch" -> _edit_patch(original, content)
      [] OTHER -> original

BackupStatus(copied) == IF copied THEN "backup_created" ELSE "backup_failed"
BackupFailedNote == <<" (Backup failed!)">>
\* [mutant] the message never mentions the backup
EditMessage_silent(status, path, backup) == <<"Successfully ", status, " ", path>>

EditMessage(status, path, backup) ==
    <<"Successfully ", status, " ", path>>
        \o (IF backup = "backup_failed" THEN BackupFailedNote ELSE <<>>)

\* EditFileTool._run(file_path, new_content, mode).  copied: the backup copy
\* succeeds; fault: what the edit meets ("read": the original cannot be read).
\* The empty file_path names the root itself, a directory: it exists, it
\* cannot be copied, read or written.
EditFileTool_run ==
    /\ Registered("edit-file")
    /\ ops < MaxOps
    /\ \E path \in ToolTargets \cup {""}, new_content \in NewContents, mode \in GivenModes,
          copied \in BOOLEAN, fault \in {"none", "read", "open", "write", "crash"} :
         /\ given' = Args(mode, new_content, TRUE)
         /\ IF path = ""
            THEN /\ ~ copied /\ fault = "none"
                 /\ fs' = fs
                 /\ result' = Result("edit-file", path, "error",
                                      IF mode \notin Modes THEN <<"Unknown mode: ", mode>>
                                      ELSE <<"Error editing file: ", "e">>,
                                      "backup_failed", <<>>, "none")
            ELSE
            LET backup == BackupStatus(copied)
                saved == _backup_file(fs, path, copied)
                wanted == edit_functions(mode, fs[path].content, new_content)
                status == "edited_" \o mode
            IN  IF ~ fs[path].exists
                THEN /\ copied /\ fault = "none"
                     /\ fs' = fs
                     /\ result' = Result("edit-file", path, "error", <<"File not found: ", path>>,
                                          "no_backup", fs[path].content, "none")
                ELSE IF mode \notin Modes
                THEN /\ fault = "none"
                     /\ fs' = saved
                     /\ result' = Result("edit-file", path, "error", <<"Unknown mode: ", mode>>,
                                          backup, fs[path].content, "none")
                ELSE IF (mode # "replace" /\ fault = "read")
                            \/ (mode = "patch" /\ PatchRaises(fs[path].content))
                THEN /\ fault \in {"none", "read"}
                     /\ fs' = saved
                     /\ result' = Result("edit-file", path, "error", <<"Error editing file: ", "e">>,
                                          backup, fs[path].content, fault)
                ELSE /\ fault # "read"
                     /\ \E file \in write_text(saved[path], wanted, fault) :
                            fs' = [saved EXCEPT ![path] = file]
                     /\ result' =
                            IF fault = "none"
                            THEN Result("edit-file", path, status, EditMessage(status, path, backup),
                                        backup, wanted, fault)
                            ELSE IF fault = "crash"
                            THEN Result("edit-file", path, "interrupted", <<>>, backup, wanted, fault)
                            ELSE Result("edit-file", path, "error", <<"Error editing file: ", "e">>,
                                        backup, wanted, fault)
    /\ ops' = ops + 1
    /\ UNCHANGED toolbox
    /\ FilesFrame

NewMessage(path, backup) ==
    <<"Successfully created ", path>>
        \o (IF backup = "backup_failed" THEN BackupFailedNote
            ELSE IF backup = "backup_created" THEN <<" (Original backed up)">> ELSE <<>>)

\* NewFileTool._run(file_path, content, overwrite)
NewFileTool_run ==
    /\ Registered("new-file")
    /\ ops < MaxOps
    /\ \E path \in ToolTargets \cup {""}, content \in NewContents, overwrite \in BOOLEAN,
          copied \in BOOLEAN, fault \in {"none", "mkdir", "open", "write", "crash"} :
       /\ given' = Args("w", content, overwrite)
       /\ IF path = ""
         THEN /\ copied /\ fault = "none"
              /\ fs' = fs
              /\ result' = Result("new-file", path, "error",
                                   <<"Error: 'file_path' cannot be empty.">>, "no_backup", <<>>, "none")
         ELSE IF fs[path].exists /\ ~ overwrite
         THEN /\ copied /\ fault = "none"
              /\ fs' = fs
              /\ result' = Result("new-file", path, "error", <<"File already exists: ", path>>,
                                   "no_backup", fs[path].content, "none")
         ELSE LET backup == IF fs[path].exists THEN BackupStatus(copied) ELSE "no_backup"
                  saved == IF fs[path].exists THEN _backup_file(fs, path, copied) ELSE fs
              IN  /\ ~ fs[path].exists => copied
                  /\ \E file \in write_text(saved[path], content,
                                             IF fault = "mkdir" THEN "open" ELSE fault) :
                         fs' = [saved EXCEPT ![path] = file]
                  /\ result' =
                         IF fault = "none"
                         THEN Result("new-file", path, "created", NewMessage(path, backup),
                                     backup, content, fault)
                         ELSE IF fault = "crash"
                         THEN Result("new-file", path, "interrupted", <<>>, backup, content, fault)
                         ELSE Result("new-file", path, "error", <<"Error creating file: ", "e">>,
                                     backup, content, fault)
    /\ ops' = ops + 1
    /\ UNCHANGED toolbox
    /\ FilesFrame

\* ------------------------------------------ core.py, the tools that read
\* create_file(path, content, overwrite=False): refuses an existing path
\* unless overwrite, else write_file
\* [mutant] create_file ignores its overwrite argument
create_file_always ==
    /\ ops < MaxOps
    /\ \E path \in WriteTargets, content \in NewContents, overwrite \in BOOLEAN,
          stop \in {"none", "mkdir", "open", "write", "replace"} :
         /\ given' = Args("w", content, overwrite)
         /\ fs' \in write_file_to(fs, path, content, stop)
         /\ result' = Result("create_file", path,
                              IF stop = "none" THEN "returned" ELSE "CodeAgentError",
                              IF stop = "none" THEN <<>> ELSE <<"Failed to write file ", path>>,
                              "no_backup", content, stop)
    /\ ops' = ops + 1
    /\ UNCHANGED toolbox
    /\ FilesFrame

create_file ==
    /\ ops < MaxOps
    /\ \E path \in WriteTargets, content \in NewContents, overwrite \in BOOLEAN,
          stop \in {"none", "mkdir", "open", "write", "replace"} :
         /\ given' = Args("w", content, overwrite)
         /\ IF fs[path].exists /\ ~ overwrite
            THEN /\ stop = "none"
                 /\ fs' = fs
                 /\ result' = Result("create_file", path, "CodeAgentError",
                                      <<"File ", path, " already exists - use overwrite=True to replace it">>,
                                      "no_backup", content, "none")
            ELSE /\ fs' \in write_file_to(fs, path, content, stop)
                 /\ result' = Result("create_file", path,
                                      IF stop = "none" THEN "returned" ELSE "CodeAgentError",
                                      IF stop = "none" THEN <<>> ELSE <<"Failed to write file ", path>>,
                                      "no_backup", content, stop)
    /\ ops' = ops + 1
    /\ UNCHANGED toolbox
    /\ FilesFrame

\* the file_path arguments of the reading tools: a file, the tests
\* directory, the empty string (the root itself)
ReadTargets == {"a.txt", "tests", ""}

\* ReadFileTool._run(file_path): the result is a string, an error message
\* or the content
ReadFileTool_run ==
    /\ Registered("read-file")
    /\ ops < MaxOps
    /\ \E file_path \in ReadTargets, fault \in {"none", "read"} :
         /\ given' = Args("", <<>>, FALSE)
         /\ result' =
                IF file_path = ""
                THEN Result("read-file", file_path, "error",
                            <<"Error: 'file_path' cannot be empty.">>, "no_backup", <<>>, "none")
                ELSE IF ~ fs[file_path].exists
                THEN Result("read-file", file_path, "error", <<"Error: File not found at ", file_path>>,
                            "no_backup", <<>>, "none")
                ELSE IF fs[file_path] = Directory
                THEN Result("read-file", file_path, "error",
                            <<"Error: Path exists but is not a file: ", file_path>>,
                            "no_backup", <<>>, "none")
                ELSE IF fault = "read"
                THEN Result("read-file", file_path, "error", <<"Error reading file: ", "e">>,
                            "no_backup", <<>>, fault)
                ELSE Result("read-file", file_path, "read",
                            <<"Content of ", file_path>> \o fs[file_path].content,
                            "no_backup", fs[file_path].content, fault)
         /\ fault = "read" => result'.fault = "read"
    /\ fs' = fs
    /\ ops' = ops + 1
    /\ UNCHANGED toolbox
    /\ FilesFrame

\* LinkerTool._run(file_path): the root itself exists and cannot be read
LinkerTool_run ==
    /\ Registered("linker")
    /\ ops < MaxOps
    /\ \E file_path \in ReadTargets, fault \in {"none", "read"} :
         /\ given' = Args("", <<>>, FALSE)
         /\ result' =
                IF file_path # "" /\ ~ fs[file_path].exists
                THEN Result("linker", file_path, "error", <<"File not found: ", file_path>>,
                            "no_backup", <<>>, "none")
                ELSE IF file_path = "" \/ fs[file_path] = Directory \/ fault = "read"
                THEN Result("linker", file_path, "error", <<"Error reading file: ", "e">>,
                            "no_backup", <<>>,
                            IF file_path # "" /\ fs[file_path] # Directory THEN fault ELSE "none")
                ELSE Result("linker", file_path, "read", fs[file_path].content,
                            "no_backup", fs[file_path].content, fault)
         /\ fault = "read" => result'.fault = "read"
    /\ fs' = fs
    /\ ops' = ops + 1
    /\ UNCHANGED toolbox
    /\ FilesFrame

\* isort and black, Rscript with styler: external programs that leave the
\* text as it is (also when they are not installed) or rewrite it
styled(text) ==
    IF text # <<>> /\ text[1] = "styled" THEN {text} ELSE {text, <<"styled">> \o text}
\* black and isort given a directory rewrite the Python files below it
PythonFiles == {"tests/test_a.py", "tests/test_.py"}
styled_below(files) ==
    {[p \in Paths |-> IF p \in touched THEN <<"styled">> \o files[p].content
                                        ELSE files[p].content] :
        touched \in SUBSET {p \in PythonFiles : files[p].exists /\ styled(files[p].content) # {files[p].content}}}

FormatTargets == {"a.txt", "tests/test_a.py", ""}
FormatModes == {"auto", "python", "r", "fancy"}
suffix(path) == IF path \in PythonFiles THEN ".py" ELSE IF path = "" THEN "" ELSE ".txt"

\* FormatCodeTool._run(file_path, mode).  fault "run": subprocess.run
\* raises; "read": the final read_text raises
FormatCodeTool_run ==
    /\ Registered("format-code")
    /\ ops < MaxOps
    /\ \E file_path \in FormatTargets, given_mode \in FormatModes, fault \in {"none", "run", "read"} :
         LET ext == suffix(file_path)
             mode == IF given_mode = "auto" /\ ext = ".py" THEN "python"
                     ELSE IF given_mode = "auto" /\ ext \in {".r", ".R"} THEN "r"
                     ELSE given_mode
         IN  /\ given' = Args(given_mode, <<>>, FALSE)
             /\ IF file_path # "" /\ ~ fs[file_path].exists
                THEN /\ fault = "none"
                     /\ fs' = fs
                     /\ result' = Result("format-code", file_path, "error",
                                          <<"File not found: ", file_path>>, "no_backup", <<>>, "none")
                ELSE IF mode \notin {"python", "r"}
                THEN /\ fault = "none"
                     /\ fs' = fs
                     /\ result' = Result("format-code", file_path, "error",
                                          <<"Unknown mode: ", mode>>, "no_backup", <<>>, "none")
                ELSE IF fault = "run"
                THEN /\ fs' = fs
                     /\ result' = Result("format-code", file_path, "error",
                                          <<"Formatting failed: ", "e">>, "no_backup", <<>>, fault)
                ELSE IF file_path = ""
                THEN /\ fault = "none"
                     /\ \E texts \in (IF mode = "python" THEN styled_below(fs)
                                        ELSE {[p \in Paths |-> fs[p].content]}) :
                            fs' = [p \in Paths |-> [exists |-> fs[p].exists, content |-> texts[p]]]
                     /\ result' = Result("format-code", file_path, "IsADirectoryError", <<>>,
                                          "no_backup", <<>>, "none")
                ELSE /\ \E text \in styled(fs[file_path].content) :
                            /\ fs' = [fs EXCEPT ![file_path].content = text]
                            /\ result' =
                                   IF fault = "read"
                                   THEN Result("format-code", file_path, "OSError", <<>>,
                                               "no_backup", text, fault)
                                   ELSE Result("format-code", file_path, "formatted",
                                               <<"Formatted ", file_path>>, "no_backup", text, fault)
    /\ ops' = ops + 1
    /\ UNCHANGED toolbox
    /\ FilesFrame

\* Path(file_path).stem and the test file generate-test writes for it
stem(path) == IF path = "a.txt" THEN "a" ELSE ""
test_file(path) == IF path = "a.txt" THEN "tests/test_a.py" ELSE "tests/test_.py"
scaffold(module_name) ==
    <<"import pytest", "from ", module_name, " import *", "def test_placeholder(): assert True">>

GenerateTargets == {"a.txt", ""}

\* [mutant] the tests directory is created before the source is looked for
GenerateTestTool_run_eager ==
    /\ Registered("generate-test")
    /\ ops < MaxOps
    /\ \E file_path \in GenerateTargets :
         /\ given' = Args("", <<>>, FALSE)
         /\ fs' = [fs EXCEPT !["tests"] = Directory]
         /\ result' = Result("generate-test", file_path, "error",
                              <<"Source file not found: ", file_path>>, "no_backup", <<>>, "none")
    /\ ops' = ops + 1
    /\ UNCHANGED toolbox
    /\ FilesFrame

\* GenerateTestTool._run(file_path, tests_dir="tests").  fault "mkdir": the
\* tests directory cannot be created; "write": the write stops midway;
\* neither is caught
GenerateTestTool_run ==
    /\ Registered("generate-test")
    /\ ops < MaxOps
    /\ \E file_path \in GenerateTargets, fault \in {"none", "mkdir", "write"} :
         LET target == test_file(file_path)
             made == [fs EXCEPT !["tests"] = Directory]
         IN  /\ given' = Args("", <<>>, FALSE)
             /\ IF file_path # "" /\ ~ fs[file_path].exists
                THEN /\ fault = "none"
                     /\ fs' = fs
                     /\ result' = Result("generate-test", file_path, "error",
                                          <<"Source file not found: ", file_path>>,
                                          "no_backup", <<>>, "none")
                ELSE IF fault = "mkdir"
                THEN /\ ~ fs["tests"].exists
                     /\ fs' = fs
                     /\ result' = Result("generate-test", file_path, "OSError", <<>>,
                                          "no_backup", scaffold(stem(file_path)), fault)
                ELSE IF fs[target].exists
                THEN /\ fault = "none"
                     /\ fs' = made
                     /\ result' = Result("generate-test", file_path, "exists",
                                          <<"Test file already exists: ", target>>,
                                          "no_backup", fs[target].content, "none")
                ELSE /\ \E file \in write_text(made[target], scaffold(stem(file_path)), fault) :
                            fs' = [made EXCEPT ![target] = file]
                     /\ result' =
                            IF fault = "none"
                            THEN Result("generate-test", file_path, "created",
                                        <<"Generated test scaffold: ", target>>,
                                        "no_backup", scaffold(stem(file_path)), fault)
                            ELSE Result("generate-test", file_path, "OSError", <<>>,
                                        "no_backup", scaffold(stem(file_path)), fault)
    /\ ops' = ops + 1
    /\ UNCHANGED toolbox
    /\ FilesFrame

\* ----------------------------------------------------------------- scaffold.py
DEFAULT_REQUIREMENTS == "# basic runtime requirements, pandas, nbformat"
WORKFLOW_CONTENT == "name: CI ..."

\* _create_directories: each mkdir(parents=True) makes the directory and
\* its missing parents
dirs(project_name) ==
    << {"docs", "docs/styles"}, {"src", package_dir(project_name)}, {"tests"},
       {".github", ".github/workflows"} >>

\* _create_files: the files in the order of the dictionary
files_to_create(project_name) ==
    << [path |-> "README.qmd", content |-> <<"# ", project_name, "Generated scaffold.">>],
       [path |-> "requirements.txt", content |-> <<DEFAULT_REQUIREMENTS>>],
       [path |-> "docs/index.qmd", content |-> <<"title: ", project_name, "Generated docs index.">>],
       [path |-> "tests/test_smoke.py", content |-> <<"def test_smoke(): assert True">>],
       [path |-> package_init(project_name), content |-> <<"# sample package init">>],
       [path |-> ".github/workflows/ci.yml", content |-> <<WORKFLOW_CONTENT>>] >>

ScaffoldFiles ==
    {"README.qmd", "requirements.txt", "docs/index.qmd", "tests/test_smoke.py",
     ".github/workflows/ci.yml"} \cup {package_init(n) : n \in ProjectNames}
ScaffoldPaths == ScaffoldFiles \cup {with_suffix_tmp(path) : path \in ScaffoldFiles}

\* where a call fails: nowhere, at the root's mkdir, at the index-th
\* directory, or in write_file of the index-th file at `stop`
NoFault == [at |-> "none", index |-> 0, stop |-> "none"]
ScaffoldFaults ==
    {NoFault} \cup {[at |-> "root", index |-> 0, stop |-> "mkdir"]}
        \cup {[at |-> "dir", index |-> i, stop |-> "mkdir"] : i \in 1..4}
        \cup {[at |-> "file", index |-> k, stop |-> stop] :
                 k \in 1..6, stop \in {"open", "write", "replace"}}

NoScaffoldCall ==
    [project_name |-> "", overwrite |-> FALSE, status |-> "", fault |-> NoFault,
     again |-> FALSE, calls |-> 0]
EmptyTree == [dirs |-> {}, files |-> [path \in ScaffoldPaths |-> Absent]]

NoScaffold ==
    /\ tree = EmptyTree
    /\ scaffolded = NoScaffoldCall

\* the loop of _create_files from the i-th file on: write_file for every
\* file that is missing or may be overwritten; the write of the failAt-th
\* file fails at `stop` and ends the loop
RECURSIVE _create_files(_, _, _, _, _, _)
_create_files(files, todo, i, overwrite, failAt, stop) ==
    IF i > Len(todo) THEN {files}
    ELSE IF ~ (overwrite \/ ~ files[todo[i].path].exists)
    THEN _create_files(files, todo, i + 1, overwrite, failAt, stop)
    ELSE IF i = failAt THEN write_file_to(files, todo[i].path, todo[i].content, stop)
    ELSE UNION {_create_files(written, todo, i + 1, overwrite, failAt, stop) :
                   written \in write_file_to(files, todo[i].path, todo[i].content, "none")}

ScaffoldFrame == UNCHANGED <<shell, graphVars, chatVars, mainVars, persistVars, filesVars, patched>>

\* [mutant] the call never looks whether a project is there already
create_project_scaffold_unchecked ==
    /\ scaffolded.calls < MaxScaffolds
    /\ \E project_name \in ProjectNames, overwrite \in BOOLEAN :
         /\ \E files \in _create_files(tree.files, files_to_create(project_name), 1, overwrite, 0, "none") :
                tree' = [dirs |-> tree.dirs \cup UNION {dirs(project_name)[i] : i \in 1..4},
                         files |-> files]
         /\ scaffolded' =
                [project_name |-> project_name, overwrite |-> overwrite, status |-> "returned",
                 fault |-> NoFault,
                 again |-> /\ scaffolded.status = "returned"
                           /\ scaffolded.project_name = project_name
                           /\ scaffolded.overwrite = overwrite,
                 calls |-> scaffolded.calls + 1]
    /\ ScaffoldFrame

\* create_project_scaffold(root, project_name, overwrite)
create_project_scaffold ==
    /\ scaffolded.calls < MaxScaffolds
    /\ \E project_name \in ProjectNames, overwrite \in BOOLEAN, fault \in ScaffoldFaults :
         LET todo == files_to_create(project_name)
             project_exists ==
                 \/ tree.files["README.qmd"].exists
                 \/ "src" \in tree.dirs
                 \/ "tests" \in tree.dirs
             made(n) == tree.dirs \cup UNION {dirs(project_name)[i] : i \in 1..n}
             ended(status) ==
                 [project_name |-> project_name, overwrite |-> overwrite, status |-> status,
                  fault |-> fault,
                  again |-> /\ scaffolded.status = "returned"
                            /\ scaffolded.project_name = project_name
                            /\ scaffolded.overwrite = overwrite,
                  calls |-> scaffolded.calls + 1]
         IN  IF fault.at = "root"
             THEN /\ tree = EmptyTree
                  /\ tree' = tree
                  /\ scaffolded' = ended("CodeAgentError")
             ELSE IF ~ overwrite /\ project_exists
             THEN /\ fault = NoFault
                  /\ tree' = tree
                  /\ scaffolded' = ended("FileExistsError")
             ELSE IF fault.at = "dir"
             THEN /\ ~ (dirs(project_name)[fault.index] \subseteq tree.dirs)
                  /\ tree' = [tree EXCEPT !.dirs = made(fault.index - 1)]
                  /\ scaffolded' = ended("CodeAgentError")
             ELSE /\ fault.at = "file" =>
                         (overwrite \/ ~ tree.files[todo[fault.index].path].exists)
                  /\ \E files \in _create_files(tree.files, todo, 1, overwrite, fault.index, fault.stop) :
                         tree' = [dirs |-> made(4), files |-> files]
                  /\ scaffolded' = ended(IF fault.at = "file" THEN "CodeAgentError" ELSE "returned")
    /\ ScaffoldFrame

\* ------------------------------------------ edit_file_tool.py: patch, repeated
\* the texts and the new contents: pieces that are markers or not
PatchTexts == UNION {[1..n -> {start_marker, end_marker, "old"}] : n \in 0..3}
PatchContents == UNION {[1..n -> {start_marker, end_marker, "x"}] : n \in 1..2}

NoPatch == [original |-> <<>>, new_content |-> <<>>, text |-> <<>>, times |-> 0, raised |-> FALSE]

\* edit-file in patch mode, once more with the same new_content: _edit_patch
\* on the text the file holds now; when it raises the file is left alone
Patch ==
    /\ patched.times < MaxPatches
    /\ patched' =
           IF PatchRaises(patched.text)
           THEN [patched EXCEPT !.times = @ + 1, !.raised = TRUE]
           ELSE [patched EXCEPT !.times = @ + 1, !.raised = FALSE,
                                !.text = _edit_patch(patched.text, patched.new_content)]
    /\ UNCHANGED <<shell, graphVars, chatVars, mainVars, persistVars, filesVars, scaffoldVars>>

\* ------------------------------------------------------------------ SpecGraph
\* one graph.invoke on a conversation that ends with a human message, as the
\* tests of test_graph.py and test_preview.py run it
InitialConversations ==
    { <<HumanMessage(Text("Please call a tool"))>>,
      <<HumanMessage(Text("Say hello")), AIMessage(Text("Hello, world!"), <<>>),
        HumanMessage(Text("test"))>> }

\* no interactive shell is running
NoSession ==
    /\ loop = "off"
    /\ conversation_state = NoneState
    /\ user_input = ""
    /\ inputsRead = 0
    /\ printed = <<>>
    /\ chat_history = <<>>
    /\ final_response = NoMessage
    /\ stored = <<>>

\* no PersistentAgent was constructed and no state file was written
NoPersistentAgent ==
    /\ stateFile = AbsentFile
    /\ _initialized = FALSE
    /\ agent = None
    /\ conversation_history = <<>>
    /\ settings = <<>>
    /\ outcome = NoCall

InitGraph ==
    /\ shell = "none"
    /\ llm \in {create_llm(ok) : ok \in BOOLEAN}
    /\ messages \in InitialConversations
    /\ pc = "agent"
    /\ tstate = <<>>
    /\ initial = messages
    /\ lastResponse = NoMessage
    /\ callCounts = <<>>
    /\ promptLens = <<>>
    /\ actionVisits = 0
    /\ NoSession
    /\ NoPersistentAgent
    /\ NoFileTools
    /\ NoScaffold
    /\ patched = NoPatch

NextGraph == build_graph

vars == <<shell, graphVars, chatVars, mainVars, outsideVars>>

SpecGraph == InitGraph /\ [][NextGraph]_vars

\* ------------------------------------------------------------------- SpecTurn
\* one graph.invoke whose model asks for one tool round after round
InitTurn ==
    /\ shell = "turn"
    /\ llm \in {create_llm(ok) : ok \in BOOLEAN}
    /\ messages \in InitialConversations
    /\ pc = "agent"
    /\ tstate = <<>>
    /\ initial = messages
    /\ lastResponse = NoMessage
    /\ callCounts = <<>>
    /\ promptLens = <<>>
    /\ actionVisits = 0
    /\ NoSession
    /\ NoPersistentAgent
    /\ NoFileTools
    /\ NoScaffold
    /\ patched = NoPatch

NextTurn == build_graph \/ OutOfSteps

SpecTurn == InitTurn /\ [][NextTurn]_vars

\* ------------------------------------------------------------------ SpecShell
\* a session of one of the two interactive shells: cli.chat starts with
\* conversation_state = {"messages": []}, main._main_loop with an empty
\* chat_history; no run yet
InitShell ==
    /\ shell \in {"chat", "main"}
    /\ llm \in {create_llm(ok) : ok \in BOOLEAN}
    /\ messages = <<>>
    /\ pc = "idle"
    /\ tstate = <<>>
    /\ initial = <<>>
    /\ lastResponse = NoMessage
    /\ callCounts = <<>>
    /\ promptLens = <<>>
    /\ actionVisits = 0
    /\ loop = "input"
    /\ conversation_state = StateOf(<<>>)
    /\ user_input = ""
    /\ inputsRead = 0
    /\ printed = <<>>
    /\ chat_history = <<>>
    /\ final_response = NoMessage
    /\ stored = <<>>
    /\ NoPersistentAgent
    /\ NoFileTools
    /\ NoScaffold
    /\ patched = NoPatch

NextShell == chat \/ _main_loop

SpecShell == InitShell /\ [][NextShell]_vars

\* ------------------------------------------------------------------ SpecFiles
\* the file operations on a root that holds a file or not; a stale
\* temporary file is what a failed write_file leaves
InitialTexts == {<<"old">>, <<"h", start_marker, "old", end_marker, "t">>, <<end_marker, start_marker>>}
InitFiles ==
    /\ shell = "none"
    /\ llm = create_llm(TRUE)
    /\ messages = <<>>
    /\ pc = "idle"
    /\ tstate = <<>>
    /\ initial = <<>>
    /\ lastResponse = NoMessage
    /\ callCounts = <<>>
    /\ promptLens = <<>>
    /\ actionVisits = 0
    /\ NoSession
    /\ NoPersistentAgent
    /\ \E target \in {Absent} \cup {File(text) : text \in InitialTexts} :
         fs = [p \in Paths |-> IF p = "a.txt" THEN target ELSE Absent]
    /\ toolbox = NoToolbox
    /\ result = NoResult
    /\ given = NoArgs
    /\ ops = 0
    /\ NoScaffold
    /\ patched = NoPatch

NextFiles == CreateDefaultTools \/ write_file \/ EditFileTool_run \/ NewFileTool_run

SpecFiles == InitFiles /\ [][NextFiles]_vars

\* ------------------------------------------------------------------ SpecTools
\* the tools of a registry built with a model handle, and create_file, on a
\* root that holds a.txt or not, and a tests directory, empty or with a
\* test file, or none
InitTools ==
    /\ shell = "none"
    /\ llm = create_llm(TRUE)
    /\ messages = <<>>
    /\ pc = "idle"
    /\ tstate = <<>>
    /\ initial = <<>>
    /\ lastResponse = NoMessage
    /\ callCounts = <<>>
    /\ promptLens = <<>>
    /\ actionVisits = 0
    /\ NoSession
    /\ NoPersistentAgent
    /\ \E target \in {Absent, File(<<"old">>)}, tests \in {"none", "empty", "test_a"} :
         fs = [p \in Paths |->
                 IF p = "a.txt" THEN target
                 ELSE IF p = "tests" /\ tests # "none" THEN Directory
                 ELSE IF p = "tests/test_a.py" /\ tests = "test_a" THEN File(<<"mine">>)
                 ELSE Absent]
    /\ toolbox = [created |-> TRUE, llm |-> llm, tools |-> create_default_tools(llm)]
    /\ result = NoResult
    /\ given = NoArgs
    /\ ops = 0
    /\ NoScaffold
    /\ patched = NoPatch

NextTools ==
    \/ create_file
    \/ ReadFileTool_run
    \/ LinkerTool_run
    \/ FormatCodeTool_run
    \/ GenerateTestTool_run
    \/ EditFileTool_run
    \/ NewFileTool_run

SpecTools == InitTools /\ [][NextTools]_vars

\* --------------------------------------------------------------- SpecScaffold
\* create_project_scaffold called on a root that is empty or holds a README
\* or a docs page of the user's
InitScaffold ==
    /\ shell = "none"
    /\ llm = create_llm(TRUE)
    /\ messages = <<>>
    /\ pc = "idle"
    /\ tstate = <<>>
    /\ initial = <<>>
    /\ lastResponse = NoMessage
    /\ callCounts = <<>>
    /\ promptLens = <<>>
    /\ actionVisits = 0
    /\ NoSession
    /\ NoPersistentAgent
    /\ NoFileTools
    /\ \E readme \in {Absent, File(<<"original">>)}, page \in {Absent, File(<<"mine">>)} :
         tree = [dirs |-> IF page.exists THEN {"docs"} ELSE {},
                 files |-> [path \in ScaffoldPaths |->
                              IF path = "README.qmd" THEN readme
                              ELSE IF path = "docs/index.qmd" THEN page ELSE Absent]]
    /\ scaffolded = NoScaffoldCall
    /\ patched = NoPatch

NextScaffold == create_project_scaffold

SpecScaffold == InitScaffold /\ [][NextScaffold]_vars

\* ------------------------------------------------------------------ SpecPatch
\* a text and a new content, patched again and again
InitPatch ==
    /\ shell = "none"
    /\ llm = create_llm(TRUE)
    /\ messages = <<>>
    /\ pc = "idle"
    /\ tstate = <<>>
    /\ initial = <<>>
    /\ lastResponse = NoMessage
    /\ callCounts = <<>>
    /\ promptLens = <<>>
    /\ actionVisits = 0
    /\ NoSession
    /\ NoPersistentAgent
    /\ NoFileTools
    /\ NoScaffold
    /\ \E original \in PatchTexts, new_content \in PatchContents :
         patched = [original |-> original, new_content |-> new_content, text |-> original,
                    times |-> 0, raised |-> FALSE]

NextPatch == Patch

SpecPatch == InitPatch /\ [][NextPatch]_vars

\* ------------------------------------------------------------- SpecPersistent
\* the processes that use a PersistentAgent over one state file
InitPersistent ==
    /\ shell = "none"
    /\ llm = create_llm(TRUE)
    /\ messages = <<>>
    /\ pc = "idle"
    /\ tstate = <<>>
    /\ initial = <<>>
    /\ lastResponse = NoMessage
    /\ callCounts = <<>>
    /\ promptLens = <<>>
    /\ actionVisits = 0
    /\ NoSession
    /\ stateFile \in StateFiles
    /\ _initialized = FALSE
    /\ agent = None
    /\ conversation_history = <<>>
    /\ settings = <<>>
    /\ outcome = NoCall
    /\ NoFileTools
    /\ NoScaffold
    /\ patched = NoPatch

NextPersistent == Construct \/ PersistentChat \/ reset_conversation \/ NewProcess

SpecPersistent == InitPersistent /\ [][NextPersistent]_vars

\* ------------------------------------------------------------------ claims
Last(msgs) == msgs[Len(msgs)]
Running == {i \in DOMAIN tstate : tstate[i] = "running"}

\* C1: single-tool round trip.  When the model's first response carries one
\* tool call and its second none, the finished run has called the model the
\* second time with a conversation of length initial + 2, and its messages
\* are the initial ones, the tool-call assistant message, exactly one tool
\* result carrying the request's call id, and the second response, last.
C1_SingleToolRoundTrip ==
    (pc = "END" /\ callCounts = <<1, 0>>) =>
        LET n == Len(initial)
        IN  /\ promptLens = <<n, n + 2>>
            /\ actionVisits = 1
            /\ Len(messages) = n + 3
            /\ SubSeq(messages, 1, n) = initial
            /\ messages[n + 1].type = "ai"
            /\ Len(messages[n + 1].tool_calls) = 1
            /\ messages[n + 2].type = "tool"
            /\ messages[n + 2].tool_call_id = messages[n + 1].tool_calls[1].id
            /\ messages[n + 3] = lastResponse

\* C2: the conversation of a run is append-only: in every step the message
\* sequence before the step is a prefix of the sequence after it.
C2_AppendOnly == [][IsPrefix(messages, messages')]_vars

\* C3: termination on no-tool-call.  When the model's first response of a run
\* carries no tool call, the run is in its terminal state after exactly one
\* model call, the action node was never visited, and the messages are the
\* initial ones followed by that response, text unchanged.
C3_TerminationOnNoToolCall ==
    (callCounts # <<>> /\ callCounts[1] = 0) =>
        /\ pc = "END"
        /\ promptLens = <<Len(initial)>>
        /\ actionVisits = 0
        /\ messages = initial \o <<lastResponse>>
        /\ Last(messages).type = "ai"
        /\ Last(messages).tool_calls = <<>>
        /\ Last(messages).content = lastResponse.content

C3_Witness ==
    /\ pc = "END"
    /\ callCounts = <<0>>
    /\ llm = "ChatOllama"
    /\ Last(messages).content = Text("Hello, world!")

\* C4: pairing.  Every tool-result message of the conversation is preceded,
\* with only tool-result messages in between, by an assistant message that
\* issued a tool call with the same call identifier.
C4_Pairing ==
    \A i \in 1..Len(messages) :
        messages[i].type = "tool" =>
            \E j \in 1..(i - 1) :
                /\ messages[j].type = "ai"
                /\ \E k \in 1..Len(messages[j].tool_calls) :
                       messages[j].tool_calls[k].id = messages[i].tool_call_id
                /\ \A m \in (j + 1)..(i - 1) : messages[m].type = "tool"

\* C5: ordering.  The dispatch phase runs the tools one at a time in request
\* order (a call is taken up only when every earlier one has returned), and
\* when it ends there are exactly N tool results, the i-th carrying the i-th
\* request's call id, and the model is queried next.
C5_SequentialOrdered ==
    [][ /\ Cardinality(Running) <= 1
        /\ \A i \in DOMAIN tstate :
               tstate[i] # "pending" => \A j \in 1..(i - 1) : tstate[j] = "done"
        /\ (pc = "action" /\ pc' # "action") =>
               LET calls == Last(messages).tool_calls
                   n == Len(calls)
                   m == Len(messages')
               IN  /\ pc' = "agent"
                   /\ \A i \in DOMAIN tstate : tstate[i] = "done"
                   /\ m >= n
                   /\ \A i \in 1..n :
                          /\ messages'[m - n + i].type = "tool"
                          /\ messages'[m - n + i].tool_call_id = calls[i].id
                   /\ Cardinality({i \in 1..m :
                          /\ messages'[i].type = "tool"
                          /\ \E k \in 1..n : messages'[i].tool_call_id = calls[k].id}) = n
      ]_vars

C8_ModelErrorPropagates ==
    [][ /\ Len(promptLens') > Len(callCounts') => (pc' = "raised" /\ messages' = messages)
        /\ pc # "raised"
      ]_vars

C8_Witness ==
    /\ pc = "raised"
    /\ Len(promptLens) = 2
    /\ Len(callCounts) = 1
    /\ Last(messages).type = "tool"

ExitWords == {"exit", "quit", "q"}
ShellWords == {"help", "clear", "tools"}
IsOrdinary(text) == text # "" /\ lower(text) \notin (ExitWords \cup ShellWords)
ReadsLine == inputsRead' = inputsRead + 1
NoRunStarted == pc' = pc /\ messages' = messages /\ promptLens' = promptLens

\* C9: in cli.chat, whatever was typed before, a line that is not empty and
\* not one of exit/quit/q/help/clear/tools is appended to the conversation
\* state as a human message and the agent is invoked on that conversation.
C9_OrdinaryInputForwarded ==
    [][ (shell = "chat" /\ ReadsLine /\ IsOrdinary(user_input')) =>
            /\ loop' = "invoke"
            /\ pc' = "agent"
            /\ ~ conversation_state'.none
            /\ conversation_state'.messages # <<>>
            /\ Last(conversation_state'.messages) = HumanTuple(Text(user_input'))
            /\ IsPrefix(conversation_state.messages, conversation_state'.messages)
            /\ messages' = conversation_state'.messages
            /\ promptLens' = <<>>
      ]_vars

\* C10 (as stated): in both shells a line that is help, clear or tools leaves
\* the shell at its prompt with no run started, and a line that is exit, quit
\* or q, in any letter case, ends the session with no run started.
C10_CommandsInEveryShell ==
    [][ ReadsLine =>
            /\ lower(user_input') \in ShellWords => (loop' = "input" /\ NoRunStarted)
            /\ lower(user_input') \in ExitWords => (loop' = "ended" /\ NoRunStarted)
      ]_vars

\* C10 (amended): in both shells exit, quit and q, in any letter case, end
\* the session with no run started; in cli.chat help, clear and tools leave
\* the shell at its prompt with no run started; main._main_loop has no such
\* commands and streams the graph on help, clear or tools as on any line.
C10_CommandsPerShell ==
    [][ ReadsLine =>
            /\ lower(user_input') \in ExitWords => (loop' = "ended" /\ NoRunStarted)
            /\ (shell = "chat" /\ lower(user_input') \in ShellWords) =>
                   (loop' = "input" /\ NoRunStarted)
            /\ (shell = "main" /\ lower(user_input') \in ShellWords) =>
                   /\ loop' = "invoke"
                   /\ pc' = "agent"
                   /\ Last(messages') = HumanMessage(Text(user_input'))
      ]_vars

C10_Witness ==
    /\ shell = "chat"
    /\ inputsRead = 2
    /\ user_input = "Help"
    /\ loop = "input"
    /\ pc = "idle"
    /\ Len(promptLens) = 1

\* C11: clear.  The chat shell's clear command and reset_conversation leave
\* the conversation equal to the empty message sequence, whatever it held,
\* and a clear that follows a clear leaves the state as it was.
C11_ClearEmptiesIdempotent ==
    [][ /\ (shell = "chat" /\ ReadsLine /\ lower(user_input') = "clear") =>
               /\ conversation_state' = StateOf(<<>>)
               /\ (inputsRead > 0 /\ lower(user_input) = "clear") =>
                      conversation_state' = conversation_state
        /\ outcome'.op = "reset_conversation" =>
               /\ conversation_history' = <<>>
               /\ outcome.op = "reset_conversation" =>
                      conversation_history' = conversation_history
      ]_vars

\* a turn ends: the run is finished and the shell goes back to its prompt
TurnEnds == loop = "invoke" /\ pc = "END" /\ loop' = "input"

\* C12: at the end of every turn the shell prints the text of the model's
\* last message of the turn, the one without tool calls, and the main loop
\* appends that message to its chat history.
C12_SurfacesLastModelMessage ==
    [][ TurnEnds =>
            /\ lastResponse.type = "ai"
            /\ lastResponse.tool_calls = <<>>
            /\ printed' = <<lastResponse.content>>
            /\ shell = "main" => chat_history' = Append(chat_history, lastResponse)
      ]_vars

\* an interrupt: the shell leaves its loop without having read a line
Interrupted == loop \in {"input", "invoke"} /\ loop' = "ended" /\ ~ ReadsLine

ToolRoundsThenAnswer(k) ==
    /\ Len(callCounts) = k + 1
    /\ \A i \in 1..k : callCounts[i] > 0
    /\ callCounts[k + 1] = 0

ChatCall == outcome'.op = "chat" /\ Len(conversation_history') > Len(conversation_history)
FirstConstruction == outcome'.op = "construct" /\ ~ _initialized

\* C15: persistence failures never abort a turn.  When the writing of the
\* state file fails in a call of chat (the directory cannot be created, the
\* file cannot be opened, the write stops midway), chat returns its response
\* string without raising and the history is the one before the call, the
\* user entry and the one reply entry of the turn.
C15_SaveFailureNeverAborts ==
    [][ (ChatCall /\ outcome'.faults # {}) =>
            /\ ~ outcome'.raised
            /\ outcome'.returned # <<>>
            /\ Len(conversation_history') = Len(conversation_history) + 2
            /\ SubSeq(conversation_history', 1, Len(conversation_history)) = conversation_history
            /\ conversation_history'[Len(conversation_history) + 1].role = "user"
            /\ Last(conversation_history').role \in {"assistant", "error"}
            /\ Last(conversation_history').content = outcome'.returned
      ]_vars

\* C16: loading never crashes.  The first construction of a process, when
\* the state file is absent, cannot be opened, or holds content that is not
\* the saved object, completes without raising with an empty history, and
\* warns when the file is unreadable or corrupted.
C16_LoadNeverCrashes ==
    [][ (FirstConstruction
            /\ (stateFile.kind \in {"absent", "invalid", "non_object"}
                    \/ "open" \in outcome'.faults)) =>
            /\ ~ outcome'.raised
            /\ _initialized'
            /\ conversation_history' = <<>>
            /\ settings' = <<>>
            /\ stateFile.kind # "absent" => outcome'.warned
      ]_vars

\* a step that is a call of write_file, of a file tool on a path of the root
FileCall(names) == ops' = ops + 1 /\ result'.op \in names /\ result'.target \in Paths
IsSuffix(s, t) == Len(s) <= Len(t) /\ SubSeq(t, Len(t) - Len(s) + 1, Len(t)) = s

\* C17: atomic write.  Whatever happens to a call write_file(target, content),
\* target afterwards holds what it held before or exactly content, and
\* exactly content when the call returned.
C17_AtomicWrite ==
    [][ FileCall({"write_file"}) =>
            /\ fs'[result'.target] \in {fs[result'.target], File(result'.wanted)}
            /\ result'.status = "returned" => fs'[result'.target] = File(result'.wanted)
      ]_vars

\* C18: edit-file (replace, append, patch) and new-file write through a
\* temporary path and a rename: whatever happens to the call, a crash in the
\* middle of the write included, the target afterwards holds what it held
\* before or the whole text the call was to write.
C18_ToolsWriteAtomically ==
    [][ FileCall({"edit-file", "new-file"}) =>
            fs'[result'.target] \in {fs[result'.target], File(result'.wanted)}
      ]_vars

SuccessStatuses == {"edited_replace", "edited_append", "edited_patch", "created"}

\* C19: best-effort backup.  When edit-file or new-file is to overwrite an
\* existing file it first copies it to the sibling .bak path; when the copy
\* fails the backup path is left alone and the write is performed all the
\* same: unless the write itself fails, or the call is refused for its mode
\* or its markers, the target holds the new text, the result is a success
\* and its message ends with the backup-failed note.
C19_BestEffortBackup ==
    [][ (FileCall({"edit-file", "new-file"}) /\ result'.backup # "no_backup") =>
            LET path == result'.target
                bak == with_suffix_bak(path)
            IN  /\ fs[path].exists
                /\ result'.backup = "backup_created" => fs'[bak] = fs[path]
                /\ result'.backup = "backup_failed" =>
                       /\ fs'[bak] = fs[bak]
                       /\ \/ /\ result'.status \in SuccessStatuses
                             /\ fs'[path] = File(result'.wanted)
                             /\ IsSuffix(BackupFailedNote, result'.message)
                          \/ result'.fault # "none"
                          \/ result'.status = "error" /\ result'.message[1] = "Unknown mode: "
                          \/ result'.status = "error" /\ PatchRaises(fs[path].content)
      ]_vars

\* edit-file replaced the text although the backup copy failed
C19_Witness ==
    /\ result.op = "edit-file"
    /\ result.backup = "backup_failed"
    /\ result.status = "edited_replace"
    /\ fs["a.txt"] = File(<<"y", "z">>)
    /\ ~ fs["a.txt.bak"].exists
    /\ IsSuffix(BackupFailedNote, result.message)

ModelTools == {"search-explain", "generate-test", "notebook", "general-chat"}

\* C20: registry composition.  create_default_tools returns the
\* model-dependent tools exactly when it is given a model handle; without
\* one it returns read-file, edit-file, linker, new-file, format-code and
\* r-script, in that order.
C20_RegistryComposition ==
    toolbox.created =>
        /\ \A name \in ModelTools : Registered(name) <=> toolbox.llm # None
        /\ toolbox.llm = None =>
               toolbox.tools = <<"read-file", "edit-file", "linker", "new-file", "format-code",
                                 "r-script">>
        /\ toolbox.llm # None => Len(toolbox.tools) = 10

\* the registry built without a handle, and one of its tools used
C20_Witness ==
    /\ toolbox.created
    /\ toolbox.llm = None
    /\ Len(toolbox.tools) = 6
    /\ result.op = "new-file"
    /\ result.status = "created"

\* C26: history shape of PersistentAgent.chat.  Every call of chat extends
\* conversation_history by exactly two entries and changes no earlier one:
\* a user entry holding the message, then one reply entry, assistant or
\* error.
C26_HistoryShape ==
    [][ ChatCall =>
            LET n == Len(conversation_history)
            IN  /\ Len(conversation_history') = n + 2
                /\ SubSeq(conversation_history', 1, n) = conversation_history
                /\ conversation_history'[n + 1] \in {Entry("user", Text(m)) : m \in ChatMessages}
                /\ conversation_history'[n + 2].role \in {"assistant", "error"}
      ]_vars

\* C27: edit-file called with a mode other than replace, append and patch
\* returns an error result and leaves every file as it was: the target
\* keeps its text and no backup file is created or overwritten.
C27_UnknownModeChangesNothing ==
    [][ (ops' = ops + 1 /\ result'.op = "edit-file" /\ given'.mode \notin Modes) =>
            /\ result'.status = "error"
            /\ fs' = fs
      ]_vars

\* C28: write_file(target, content) touches only target.  Whether the call
\* returns or fails, every other path, a sibling <stem>.tmp that was there
\* included, exists and reads after the call as before it; no temporary
\* file is left behind.
C28_WriteTouchesOnlyTarget ==
    [][ FileCall({"write_file"}) =>
            \A p \in Paths \ {result'.target} : fs'[p] = fs[p]
      ]_vars

\* C29: process-wide singleton.  A construction that follows the first one
\* of the process, with any llm, returns without raising and leaves the
\* instance as it is: the agent is not rebuilt, conversation_history and
\* settings are neither cleared nor loaded again.
C29_Singleton ==
    [][ (outcome'.op = "construct" /\ _initialized) =>
            /\ ~ outcome'.raised
            /\ _initialized'
            /\ agent' = agent
            /\ conversation_history' = conversation_history
            /\ settings' = settings
            /\ stateFile' = stateFile
      ]_vars

\* a later construction found a history that is not the one of the state file
C29_Witness ==
    /\ outcome.op = "construct"
    /\ _initialized
    /\ Len(conversation_history) = 2
    /\ stateFile.kind = "absent"

\* a step that is a call of one of the named tools or functions
ToolCall(names) == ops' = ops + 1 /\ result'.op \in names

\* C21: missing target file.  read-file, edit-file, linker, format-code and
\* generate-test called with a path that does not exist under the root
\* return an error result, raise nothing, and create or change no file.
C21_MissingTargetFile ==
    [][ (/\ ToolCall({"read-file", "edit-file", "linker", "format-code", "generate-test"})
         /\ result'.target \in Paths
         /\ ~ fs[result'.target].exists) =>
            /\ result'.status = "error"
            /\ fs' = fs
      ]_vars

\* generate-test looked for a source that is not there, in a root without
\* a tests directory
C21_Witness ==
    /\ result.op = "generate-test"
    /\ result.target = "a.txt"
    /\ result.status = "error"
    /\ result.message[1] = "Source file not found: "
    /\ ~ fs["a.txt"].exists
    /\ ~ fs["tests"].exists

\* C22: empty required argument.  read-file, new-file, edit-file, linker,
\* format-code and generate-test called with the empty string as file_path
\* return an error result, and no file is created, backed up or written.
C22_EmptyPathIsAnError ==
    [][ (/\ ToolCall({"read-file", "new-file", "edit-file", "linker", "format-code",
                      "generate-test"})
         /\ result'.target = "") =>
            /\ result'.status = "error"
            /\ fs' = fs
      ]_vars

\* C23: create_file on a path that exists raises CodeAgentError and leaves
\* every file as it was when overwrite is False; with overwrite=True it
\* returns, unless the write itself fails, and the file then holds exactly
\* the new content.
C23_CreateFileOverwrite ==
    [][ (ToolCall({"create_file"}) /\ fs[result'.target].exists) =>
            /\ ~ given'.overwrite =>
                   /\ result'.status = "CodeAgentError"
                   /\ fs' = fs
            /\ (given'.overwrite /\ result'.fault = "none") => result'.status = "returned"
            /\ (given'.overwrite /\ result'.status = "returned") =>
                   fs'[result'.target] = File(given'.content)
      ]_vars

\* create_file refused to replace the file that was there
C23_Witness ==
    /\ result.op = "create_file"
    /\ result.target = "a.txt"
    /\ ~ given.overwrite
    /\ result.status = "CodeAgentError"
    /\ result.fault = "none"
    /\ fs["a.txt"] = File(<<"old">>)

\* C25: generate-test called on an existing file that is not a Python file
\* raises ValueError and generates no test file.
C25_NonPythonSourceRaises ==
    [][ (/\ ToolCall({"generate-test"})
         /\ result'.target \in Paths
         /\ fs[result'.target].exists
         /\ suffix(result'.target) # ".py") =>
            /\ result'.status = "ValueError"
            /\ \A p \in PythonFiles : fs'[p] = fs[p]
      ]_vars

\* a call of create_project_scaffold that repeats, with the same project
\* name and overwrite flag, the call before it, which returned; the repeat
\* itself meets no failure of the file system
RepeatedScaffold ==
    /\ scaffolded'.calls = scaffolded.calls + 1
    /\ scaffolded'.again
    /\ scaffolded'.fault = NoFault

MarkersInOrder(text) ==
    \E i, j \in 1..Len(text) : i < j /\ text[i] = start_marker /\ text[j] = end_marker
SecondPatch == patched.times = 1 /\ patched'.times = 2 /\ MarkersInOrder(patched.original)

\* C30: patch mode is idempotent on a file that holds the start marker
\* followed later by the end marker: the second patch with the same
\* new_content leaves the text the first one left, for every new_content.
C30_PatchIdempotent ==
    [][ SecondPatch => (~ patched'.raised /\ patched'.text = patched.text) ]_vars

\* C30 (amended): the same, for every new_content that does not hold the
\* end marker.
C30_PatchIdempotentWithoutEndMarker ==
    [][ (SecondPatch /\ ~ Occurs(end_marker, patched.new_content)) =>
            (~ patched'.raised /\ patched'.text = patched.text)
      ]_vars

\* patched twice with a new content that holds the start marker
C30_Witness ==
    /\ patched.times = 2
    /\ ~ patched.raised
    /\ patched.original = <<start_marker, "old", end_marker>>
    /\ patched.new_content = <<start_marker, "x">>
    /\ patched.text = <<start_marker, "\n", start_marker, "x", "\n", end_marker>>

====
